---- MODULE Spec2Model ----
(***************************************************************************)
(* app/main_ai_studio.py: the CTA section validation (validate_cta and the *)
(* text helpers count_words, extract_attack_ids, find_headings), the walk  *)
(* over the candidate models (request_structured_json, _candidate_models)  *)
(* and main with its exit codes.                                           *)
(*                                                                         *)
(* A text is a sequence of one-character strings.  A Python dict is the    *)
(* sequence of its <<key, value>> items in insertion order (keys unique).  *)
(* An optional value (the result of dict.get without default) is a record  *)
(* [some, v]; None is [some |-> FALSE].                                    *)
(*                                                                         *)
(* Spec is validate_cta called on any document; SpecMain is one run of     *)
(* main; SpecIds and SpecHeadings are extract_attack_ids and find_headings *)
(* on their own.                                                           *)
(***************************************************************************)
EXTENDS Integers, Sequences, FiniteSets, TLC

VARIABLES
    doc,       \* the sections dict the caller holds and passes to validate_cta
    topic,     \* the idea text the caller passes
    minimum,   \* the min_words the caller passes
    flag,      \* the require_attack_ids the caller passes
    pc,        \* the caller's position: "ready", "returned", "other",
               \* "revalidated"; in main also "start", "generate", "raise",
               \* "normalize", "gate", "render", "done"
    first,     \* what the first call on doc returned
    result,    \* what the latest call of validate_cta returned
    args,      \* main: the parsed arguments [strict_sections, model]
    listed,    \* the names client.models.list() gives this API key
    models,    \* request_structured_json: the candidate list
    cursor,    \* the position in models of the loop of request_structured_json
    resp,      \* what the latest call of _call_generate_content produced
    answers,   \* the kinds of outcome the calls of this run have had
    last_err,  \* request_structured_json: last_err
    data,      \* what request_structured_json returned to main
    norm,      \* main: norm_sections
    report,    \* render_template: whether called, whether it returned, the bytes of md
    output,    \* the output file: "absent", "open" or "written"
    exit_code, \* what main returned; -1 while it runs
    arg,       \* the text a helper is applied to
    ret        \* what the helper returned

callVars == <<doc, topic, minimum, flag>>
mainVars ==
    <<args, listed, models, cursor, resp, answers, last_err, data, norm,
      report, output, exit_code>>
helperVars == <<arg, ret>>

vars ==
    <<doc, topic, minimum, flag, pc, first, result, args, listed, models,
      cursor, resp, answers, last_err, data, norm, report, output,
      exit_code, arg, ret>>

(***************************************************************************)
(* Character classes of Python's re for str patterns, on the alphabet the  *)
(* model's texts are written in.                                           *)
(***************************************************************************)
Digits == {"0", "1", "5", "7", "8", "9"}
Letters == {"a", "b", "c", "T", "x"}
Spaces == {" ", "\n"}

\* \d
IsDigit(c) == c \in Digits
\* \w
IsWordChar(c) == c \in Letters \cup Digits \cup {"_"}
\* the characters str.strip() removes
IsSpace(c) == c \in Spaces

\* \b at the gap before position i of s (1 <= i <= Len(s) + 1)
WordBoundary(s, i) ==
    LET before == i > 1 /\ IsWordChar(s[i - 1])
        after == i <= Len(s) /\ IsWordChar(s[i])
    IN before # after

(***************************************************************************)
(* count_words: len(re.findall(r"\b\w+\b", text or "")).  findall scans    *)
(* left to right; at a position where \b\w+\b matches, the greedy \w+      *)
(* takes the whole run, and scanning resumes after it.                     *)
(***************************************************************************)
RECURSIVE RunEnd(_, _)
RunEnd(s, i) ==
    IF i <= Len(s) /\ IsWordChar(s[i]) THEN RunEnd(s, i + 1) ELSE i

RECURSIVE WordsFrom(_, _)
WordsFrom(s, i) ==
    IF i > Len(s) THEN 0
    ELSE IF WordBoundary(s, i) /\ IsWordChar(s[i])
         THEN 1 + WordsFrom(s, RunEnd(s, i))
         ELSE WordsFrom(s, i + 1)

count_words(text) == WordsFrom(text, 1)

(***************************************************************************)
(* extract_attack_ids: sorted(set(re.findall(r"\bT\d{4}\b", s))).          *)
(***************************************************************************)
IdLen == 5

\* variant: no \b after the digits
MatchesIdAt_noEnd(s, i) ==
    /\ i + IdLen - 1 <= Len(s)
    /\ WordBoundary(s, i)
    /\ s[i] = "T"
    /\ \A k \in 1..(IdLen - 1) : IsDigit(s[i + k])

\* \bT\d{4}\b matches at position i
MatchesIdAt(s, i) ==
    /\ i + IdLen - 1 <= Len(s)
    /\ WordBoundary(s, i)
    /\ s[i] = "T"
    /\ \A k \in 1..(IdLen - 1) : IsDigit(s[i + k])
    /\ WordBoundary(s, i + IdLen)

RECURSIVE FindAllIds(_, _)
FindAllIds(s, i) ==
    IF i > Len(s) THEN <<>>
    ELSE IF MatchesIdAt(s, i)
         THEN <<SubSeq(s, i, i + IdLen - 1)>> \o FindAllIds(s, i + IdLen)
         ELSE FindAllIds(s, i + 1)

SeqToSet(q) == {q[i] : i \in DOMAIN q}

\* Python's order on str, for texts over the alphabet: by code point
CodePoint(c) ==
    CASE c = "\n" -> 10 [] c = " " -> 32 [] c = "-" -> 45
      [] c = "0" -> 48 [] c = "1" -> 49 [] c = "5" -> 53 [] c = "7" -> 55
      [] c = "8" -> 56 [] c = "9" -> 57 [] c = "T" -> 84 [] c = "_" -> 95
      [] c = "a" -> 97 [] c = "b" -> 98 [] c = "c" -> 99 [] c = "x" -> 120

RECURSIVE StrLess(_, _)
StrLess(a, b) ==
    IF b = <<>> THEN FALSE
    ELSE IF a = <<>> THEN TRUE
    ELSE IF a[1] # b[1] THEN CodePoint(a[1]) < CodePoint(b[1])
    ELSE StrLess(Tail(a), Tail(b))

RECURSIVE SetToSortedSeq(_)
SetToSortedSeq(S) ==
    IF S = {} THEN <<>>
    ELSE LET m == CHOOSE x \in S : \A y \in S \ {x} : StrLess(x, y)
         IN <<m>> \o SetToSortedSeq(S \ {m})

extract_attack_ids(s) == SetToSortedSeq(SeqToSet(FindAllIds(s, 1)))

(***************************************************************************)
(* str and dict primitives used by validate_cta                            *)
(***************************************************************************)
RECURSIVE LStrip(_)
LStrip(s) == IF s # <<>> /\ IsSpace(s[1]) THEN LStrip(Tail(s)) ELSE s

RECURSIVE RStrip(_)
RStrip(s) ==
    IF s # <<>> /\ IsSpace(s[Len(s)]) THEN RStrip(SubSeq(s, 1, Len(s) - 1)) ELSE s

\* str.strip()
Strip(s) == RStrip(LStrip(s))

(***************************************************************************)
(* find_headings: RE_HEADING = ^\s{0,3}#{1,6}\s+(.+?)\s*$ with MULTILINE.  *)
(* Positions are 1-based; a position p stands before s[p].  The matcher    *)
(* backtracks: a greedy part tries its longest stretch first, the lazy     *)
(* group its shortest.  \s is any white space, line feeds included.        *)
(***************************************************************************)
Max(S) == CHOOSE x \in S : \A y \in S : x >= y
Min(S) == CHOOSE x \in S : \A y \in S : x <= y

\* ^ and $ under re.MULTILINE
AtLineStart(s, p) == p = 1 \/ s[p - 1] = "\n"
AtLineEnd(s, p) == p = Len(s) + 1 \/ s[p] = "\n"

\* where \s*$ can end when it starts at e
TailEnds(s, e) ==
    {f \in e..(Len(s) + 1) :
        (\A i \in e..(f - 1) : IsSpace(s[i])) /\ AtLineEnd(s, f)}
\* where (.+?) can end when it starts at d, the rest of the pattern matching
GroupEnds(s, d) ==
    {e \in (d + 1)..(Len(s) + 1) :
        (\A i \in d..(e - 1) : s[i] # "\n") /\ TailEnds(s, e) # {}}
\* where \s+ can end when it starts at c
AfterSpaces(s, c) ==
    {d \in (c + 1)..(Len(s) + 1) :
        (\A i \in c..(d - 1) : IsSpace(s[i])) /\ GroupEnds(s, d) # {}}
\* where #{1,6} can end when it starts at b
AfterHashes(s, b) ==
    {c \in (b + 1)..(IF b + 6 <= Len(s) + 1 THEN b + 6 ELSE Len(s) + 1) :
        (\A i \in b..(c - 1) : s[i] = "#") /\ AfterSpaces(s, c) # {}}
\* where \s{0,3} can end when it starts at a
AfterIndent(s, a) ==
    {b \in a..(IF a + 3 <= Len(s) + 1 THEN a + 3 ELSE Len(s) + 1) :
        (\A i \in a..(b - 1) : IsSpace(s[i])) /\ AfterHashes(s, b) # {}}

\* RE_HEADING matches at p
HeadingAt(s, p) == AtLineStart(s, p) /\ AfterIndent(s, p) # {}

\* the match at p: where it starts, group(1), where it ends
HeadingMatch(s, p) ==
    LET b == Max(AfterIndent(s, p))
        c == Max(AfterHashes(s, b))
        d == Max(AfterSpaces(s, c))
        e == Min(GroupEnds(s, d))
        f == Max(TailEnds(s, e))
    IN [start |-> p, group |-> SubSeq(s, d, e - 1), end |-> f]

\* RE_HEADING.finditer(md), from position p on
RECURSIVE FindIter(_, _)
FindIter(s, p) ==
    IF p > Len(s) THEN <<>>
    ELSE IF HeadingAt(s, p)
         THEN LET m == HeadingMatch(s, p)
              IN <<m>> \o FindIter(s, m.end)
         ELSE FindIter(s, p + 1)

\* [(m.group(1).strip(), m.start()) for m in RE_HEADING.finditer(md)]
find_headings(md) ==
    LET ms == FindIter(md, 1)
    IN [i \in DOMAIN ms |-> <<Strip(ms[i].group), ms[i].start - 1>>]

None == [some |-> FALSE, v |-> <<>>]
Some(x) == [some |-> TRUE, v |-> x]

\* truth value of an optional str: None and "" are false
Truthy(o) == o.some /\ o.v # <<>>

HasKey(d, key) == \E i \in DOMAIN d : d[i][1] = key
Lookup(d, key) == d[CHOOSE i \in DOMAIN d : d[i][1] = key][2]

\* d.get(key)
Get(d, key) == IF HasKey(d, key) THEN Some(Lookup(d, key)) ELSE None
\* d.get(key, default)
GetOr(d, key, default) == IF HasKey(d, key) THEN Lookup(d, key) ELSE default
\* list(d.values())
Values(d) == [i \in DOMAIN d |-> d[i][2]]

\* sep.join(parts)
RECURSIVE Join(_, _)
Join(sep, parts) ==
    IF parts = <<>> THEN <<>>
    ELSE IF Len(parts) = 1 THEN parts[1]
    ELSE parts[1] \o sep \o Join(sep, Tail(parts))

\* d[key]: the value, or KeyError raised
Subscript(d, key) ==
    IF HasKey(d, key) THEN [raised |-> "", v |-> Lookup(d, key)]
    ELSE [raised |-> "KeyError", v |-> <<>>]

\* str.title(), on the section keys
Title(key) ==
    CASE key = "background" -> "Background"
      [] key = "hypothesis" -> "Hypothesis"
      [] key = "analysis" -> "Analysis"
      [] key = "findings" -> "Findings"
      [] key = "suspicious activity hits" -> "Suspicious Activity Hits"
      [] key = "suspicious activity" -> "Suspicious Activity"
      [] key = "recommendations" -> "Recommendations"
      [] key = "additional research" -> "Additional Research"
      [] key = "appendix" -> "Appendix"
      [] key = "resources" -> "Resources"

(***************************************************************************)
(* Error messages: the format string and the values formatted into it.     *)
(***************************************************************************)
\* f"Missing required section: {name}"
ErrMissing(name) ==
    [fmt |-> "Missing required section: {}", name |-> name,
     wc |-> 0, min |-> 0, ids |-> <<>>]
\* f"Section '{name}' is too short ({wc} words < {min_words})."
ErrShort(name, wc, min) ==
    [fmt |-> "Section '{}' is too short ({} words < {}).", name |-> name,
     wc |-> wc, min |-> min, ids |-> <<>>]
\* f"ATT&CK IDs from idea not reflected in output: expected one of {idea_ids}"
ErrAttack(ids) ==
    [fmt |-> "ATT&CK IDs from idea not reflected in output: expected one of {}",
     name |-> "", wc |-> 0, min |-> 0, ids |-> ids]

\* word_counts[name] = wc, on a dict held as its set of items
Put(word_counts, name, wc) ==
    {p \in word_counts : p[1] # name} \cup {<<name, wc>>}

(***************************************************************************)
(* validate_cta                                                            *)
(***************************************************************************)
\* variant: the list is shared between calls (as a mutable default would be)
NewErrors_shared == result.errors

\* errors = []
NewErrors == <<>>
\* word_counts = {}
NewWordCounts == {}

\* variant: "findings" is one more key of the required loop
required_withFindings ==
    <<"findings", "background", "hypothesis", "analysis", "recommendations",
      "additional research", "resources">>

required ==
    <<"background", "hypothesis", "analysis", "recommendations",
      "additional research", "resources">>

\* variant: only the "findings" key is looked up
FindingsOk_onlyFindings(sections) == Get(sections, "findings")

\* variant: "suspicious activity" is accepted as a third label
FindingsOk_threeLabels(sections) ==
    IF Truthy(Get(sections, "findings"))
    THEN Get(sections, "findings")
    ELSE IF Truthy(Get(sections, "suspicious activity hits"))
         THEN Get(sections, "suspicious activity hits")
         ELSE Get(sections, "suspicious activity")

\* findings_ok = sections.get("findings") or sections.get("suspicious activity hits")
FindingsOk(sections) ==
    IF Truthy(Get(sections, "findings"))
    THEN Get(sections, "findings")
    ELSE Get(sections, "suspicious activity hits")

\* if not findings_ok: errors.append(...)
CheckFindings(sections, errors) ==
    IF ~Truthy(FindingsOk(sections))
    THEN Append(errors, ErrMissing("Findings or Suspicious Activity Hits"))
    ELSE errors

\* variant: a count equal to min_words is too short
RequiredBody_le(sections, min_words, key, st) ==
    LET body == GetOr(sections, key, <<>>)
    IN IF Strip(body) = <<>>
       THEN [st EXCEPT !.errors = Append(@, ErrMissing(Title(key)))]
       ELSE LET wc == count_words(body)
            IN [errors |-> IF wc <= min_words
                           THEN Append(st.errors, ErrShort(Title(key), wc, min_words))
                           ELSE st.errors,
                word_counts |-> Put(st.word_counts, Title(key), wc)]

\* the body of "for key in required", on st = [errors, word_counts]
RequiredBody(sections, min_words, key, st) ==
    LET body == GetOr(sections, key, <<>>)
    IN IF Strip(body) = <<>>
       THEN [st EXCEPT !.errors = Append(@, ErrMissing(Title(key)))]
       ELSE LET wc == count_words(body)
            IN [errors |-> IF wc < min_words
                           THEN Append(st.errors, ErrShort(Title(key), wc, min_words))
                           ELSE st.errors,
                word_counts |-> Put(st.word_counts, Title(key), wc)]

\* for key in required, from the i-th key on
RECURSIVE CheckRequired(_, _, _, _)
CheckRequired(sections, min_words, i, st) ==
    IF i > Len(required) THEN st
    ELSE CheckRequired(sections, min_words, i + 1,
                       RequiredBody(sections, min_words, required[i], st))

\* variant: the subscript is not guarded by the lookup
CheckAppendix_unguarded(sections, word_counts) ==
    LET body == Subscript(sections, "appendix")
    IN [raised |-> body.raised,
        word_counts |-> Put(word_counts, "Appendix", count_words(body.v))]

\* if sections.get("appendix", ""):
\*     word_counts["Appendix"] = count_words(sections["appendix"])
CheckAppendix(sections, word_counts) ==
    IF GetOr(sections, "appendix", <<>>) # <<>>
    THEN LET body == Subscript(sections, "appendix")
         IN [raised |-> body.raised,
             word_counts |-> Put(word_counts, "Appendix", count_words(body.v))]
    ELSE [raised |-> "", word_counts |-> word_counts]

\* "\n".join(sections.values())
JoinedBodies(sections) == Join(<<"\n">>, Values(sections))

\* variant: every ID of the idea has to be found
AnyFound_all(idea_ids, found_ids) ==
    \A i \in DOMAIN idea_ids : idea_ids[i] \in SeqToSet(found_ids)

\* any(i in found_ids for i in idea_ids)
AnyFound(idea_ids, found_ids) ==
    \E i \in DOMAIN idea_ids : idea_ids[i] \in SeqToSet(found_ids)

\* if require_attack_ids: ...
CheckAttack(sections, idea, require_attack_ids, errors) ==
    IF require_attack_ids
    THEN LET idea_ids == extract_attack_ids(idea)
         IN IF idea_ids # <<>>
            THEN LET found_ids == extract_attack_ids(JoinedBodies(sections))
                 IN IF ~AnyFound(idea_ids, found_ids)
                    THEN Append(errors, ErrAttack(idea_ids))
                    ELSE errors
            ELSE errors
    ELSE errors

\* a call that ends in an exception returns nothing
Raised(exc) == [raised |-> exc, ok |-> FALSE, errors |-> <<>>, word_counts |-> {}]
\* return (len(errors) == 0), errors, word_counts
Return(errors, word_counts) ==
    [raised |-> "", ok |-> Len(errors) = 0, errors |-> errors,
     word_counts |-> word_counts]

\* variant: the minimum is applied to the appendix too
validate_cta_appendixMin(sections, idea, min_words, require_attack_ids) ==
    LET e1 == CheckFindings(sections, NewErrors)
        st == CheckRequired(sections, min_words, 1,
                            [errors |-> e1, word_counts |-> NewWordCounts])
        app == CheckAppendix(sections, st.word_counts)
        e3 == IF \E p \in app.word_counts : p[1] = "Appendix" /\ p[2] < min_words
              THEN Append(st.errors,
                          ErrShort("Appendix",
                                   count_words(GetOr(sections, "appendix", <<>>)),
                                   min_words))
              ELSE st.errors
        errors == CheckAttack(sections, idea, require_attack_ids, e3)
    IN IF app.raised # "" THEN Raised(app.raised)
       ELSE Return(errors, app.word_counts)

\* variant: the Findings check runs after the loop over the required sections
validate_cta_findingsAfter(sections, idea, min_words, require_attack_ids) ==
    LET st == CheckRequired(sections, min_words, 1,
                            [errors |-> NewErrors, word_counts |-> NewWordCounts])
        e2 == CheckFindings(sections, st.errors)
        app == CheckAppendix(sections, st.word_counts)
        errors == CheckAttack(sections, idea, require_attack_ids, e2)
    IN IF app.raised # "" THEN Raised(app.raised)
       ELSE Return(errors, app.word_counts)

\* variant: ok is computed before the ATT&CK check appends its error
validate_cta_okBeforeAttack(sections, idea, min_words, require_attack_ids) ==
    LET e1 == CheckFindings(sections, NewErrors)
        st == CheckRequired(sections, min_words, 1,
                            [errors |-> e1, word_counts |-> NewWordCounts])
        app == CheckAppendix(sections, st.word_counts)
        errors == CheckAttack(sections, idea, require_attack_ids, st.errors)
    IN IF app.raised # "" THEN Raised(app.raised)
       ELSE [Return(errors, app.word_counts) EXCEPT !.ok = Len(st.errors) = 0]

validate_cta(sections, idea, min_words, require_attack_ids) ==
    LET e1 == CheckFindings(sections, NewErrors)
        st == CheckRequired(sections, min_words, 1,
                            [errors |-> e1, word_counts |-> NewWordCounts])
        app == CheckAppendix(sections, st.word_counts)
        errors == CheckAttack(sections, idea, require_attack_ids, st.errors)
    IN IF app.raised # "" THEN Raised(app.raised)
       ELSE Return(errors, app.word_counts)

(***************************************************************************)
(* The inputs validate_cta is called on                                    *)
(***************************************************************************)
\* ""
TEmpty == <<>>
\* " "
TBlank == <<" ">>
\* "-"
TDash == <<"-">>
\* "a"
TOne == <<"a">>
\* "a b"
TTwo == <<"a", " ", "b">>
\* "a b c"
TThree == <<"a", " ", "b", " ", "c">>
\* "T1578 a"
TId1578 == <<"T", "1", "5", "7", "8", " ", "a">>
\* "-T1059"
TId1059 == <<"-", "T", "1", "0", "5", "9">>
\* "T1059 a"
TIdea1059 == <<"T", "1", "0", "5", "9", " ", "a">>
\* "xT1578 T15789 T157"
TNoId == <<"x", "T", "1", "5", "7", "8", " ", "T", "1", "5", "7", "8", "9",
           " ", "T", "1", "5", "7">>
\* "T1578 T1059"
TTwoIds == <<"T", "1", "5", "7", "8", " ", "T", "1", "0", "5", "9">>

Keys ==
    <<"background", "hypothesis", "analysis", "findings",
      "suspicious activity hits", "suspicious activity", "recommendations",
      "additional research", "appendix", "resources">>

\* the bodies a key is given in the documents checked; None: the key is absent
Bodies(key) ==
    CASE key = "background" -> {None, Some(TBlank), Some(TDash), Some(TTwo)}
      [] key = "hypothesis" -> {None, Some(TTwo)}
      [] key = "analysis" -> {None, Some(TThree)}
      [] key = "findings" -> {None, Some(TOne)}
      [] key = "suspicious activity hits" -> {None, Some(TEmpty), Some(TOne)}
      [] key = "suspicious activity" -> {None, Some(TTwo)}
      [] key = "recommendations" -> {None, Some(TTwo)}
      [] key = "additional research" -> {None, Some(TNoId)}
      [] key = "appendix" -> {None, Some(TEmpty), Some(TId1059)}
      [] key = "resources" -> {None, Some(TId1578)}

Ideas == {TTwo, TIdea1059, TTwoIds}

MaxMinWords == 2

\* the dict whose items are the present keys of choice, inserted in the order of keys
RECURSIVE MkDict(_, _)
MkDict(choice, keys) ==
    IF keys = <<>> THEN <<>>
    ELSE IF choice[Head(keys)].some
         THEN <<<<Head(keys), choice[Head(keys)].v>>>> \o MkDict(choice, Tail(keys))
         ELSE MkDict(choice, Tail(keys))

\* the same items inserted in the opposite order
Reversed(d) == [i \in DOMAIN d |-> d[Len(d) + 1 - i]]

\* another caller's document: {"findings": "a"}, idea "T1578 a"
OtherSections == <<<<"findings", TOne>>>>
OtherIdea == TId1578

(***************************************************************************)
(* _candidate_models.  A model name is the sequence of its parts, such as  *)
(* <<"models/", "gemini-1.5-flash">>; surrounding blanks are parts too.    *)
(***************************************************************************)
\* the names of the for loop of _candidate_models
StaticFallbacks ==
    <<<<"gemini-1.5-pro-latest">>, <<"gemini-1.5-flash">>,
      <<"gemini-1.5-flash-8b">>, <<"gemini-1.5-pro">>, <<"gemini-1.0-pro">>>>

\* f"models/{m}"
Prefixed(m) == <<"models/">> \o m

\* if m not in seen: order.append(m), on st = [seen, order]
AppendUnseen(st, m) ==
    IF m \notin st.seen THEN [st EXCEPT !.order = Append(@, m)] ELSE st

\* a name and then its prefixed form
AppendBoth(st, m) == AppendUnseen(AppendUnseen(st, m), Prefixed(m))

\* if preferred and preferred.strip(): ...
AddPreferred(st, preferred) ==
    IF Truthy(preferred) /\ Strip(preferred.v) # <<>>
    THEN AppendBoth(st, Strip(preferred.v))
    ELSE st

\* for m in [...]: ..., from the i-th name on
RECURSIVE AddFallbacks(_, _)
AddFallbacks(st, i) ==
    IF i > Len(StaticFallbacks) THEN st
    ELSE AddFallbacks(AppendBoth(st, StaticFallbacks[i]), i + 1)

_candidate_models(discovered, preferred) ==
    LET st0 == [seen |-> SeqToSet(discovered), order |-> discovered]
    IN AddFallbacks(AddPreferred(st0, preferred), 1).order

(***************************************************************************)
(* request_structured_json.  An exception is its class and the set of the  *)
(* phrases its message contains.  What one call of _call_generate_content  *)
(* produces is [err, text, cands, parts]: the exception raised (NoError    *)
(* when a response came back), resp.text, and resp.candidates as "none",   *)
(* "parts" (candidates[0].content.parts is parts) or "nocontent"           *)
(* (candidates[0].content is None).                                        *)
(*                                                                         *)
(* A response text is a sequence of pieces: blanks, prose ("x"), brackets, *)
(* and the member text of a JSON object, named by a token.                 *)
(***************************************************************************)
NoError == [type |-> "None", msg |-> {}]
Error(type, msg) == [type |-> type, msg |-> msg]

_is_mime_error(err) ==
    "response_mime_type" \in err.msg /\ "INVALID_ARGUMENT" \in err.msg

_is_not_found(err) == "NOT_FOUND" \in err.msg \/ "404" \in err.msg

\* the member texts that are well-formed JSON
MemberTexts == {"m_full", "m_lower", "m_partial", "m_nulls", "m_meta"}

NoValue == [type |-> "none", body |-> ""]
Loaded(type, body) == [raised |-> "", v |-> [type |-> type, body |-> body]]
DecodeError == [raised |-> "JSONDecodeError", v |-> NoValue]

\* json.loads(s): one value, with blanks around it allowed
JsonLoads(s) ==
    LET t == Strip(s)
    IN IF t = <<"{", "}">> THEN Loaded("dict", "")
       ELSE IF Len(t) = 3 /\ t[1] = "{" /\ t[3] = "}" /\ t[2] \in MemberTexts
            THEN Loaded("dict", t[2])
       ELSE IF t = <<"[", "]">> THEN Loaded("list", "")
       ELSE DecodeError

\* re.search(r"\{.*\}", s, flags=re.DOTALL): from the first "{" to the last "}"
SearchBlock(s) ==
    LET opens == {i \in DOMAIN s : s[i] = "{"}
        lo == CHOOSE i \in opens : \A k \in opens : i <= k
        closes == {j \in DOMAIN s : s[j] = "}" /\ j > lo}
        hi == CHOOSE j \in closes : \A k \in closes : j >= k
    IN IF opens = {} \/ closes = {} THEN None ELSE Some(SubSeq(s, lo, hi))

\* the texts of the parts that have one
RECURSIVE PartTexts(_)
PartTexts(parts) ==
    IF parts = <<>> THEN <<>>
    ELSE IF Truthy(Head(parts)) THEN <<Head(parts).v>> \o PartTexts(Tail(parts))
         ELSE PartTexts(Tail(parts))

\* text = (getattr(resp, "text", "") or "").strip(), else the parts' texts
ResponseText(o) ==
    LET t == Strip(IF Truthy(o.text) THEN o.text.v ELSE <<>>)
    IN IF t = <<>> /\ o.cands # "none"
       THEN IF o.cands = "nocontent"
            THEN [raised |-> "AttributeError", v |-> <<>>]
            ELSE [raised |-> "", v |-> Strip(Join(<<>>, PartTexts(o.parts)))]
       ELSE [raised |-> "", v |-> t]

\* what one pass of the loop body decides
Continue(err) == [act |-> "continue", value |-> NoValue, last_err |-> err]
Break(err) == [act |-> "break", value |-> NoValue, last_err |-> err]
ReturnValue(v, err) == [act |-> "return", value |-> v, last_err |-> err]

\* except ClientError as ce: ... except Exception as e: ...
Handle(err) ==
    IF err.type = "ClientError" /\ _is_not_found(err) THEN Continue(err)
    ELSE Break(err)

\* try: return json.loads(text) except json.JSONDecodeError: ...
ParseJson(t, prev) ==
    LET whole == JsonLoads(t)
        block == SearchBlock(t)
    IN IF whole.raised = "" THEN ReturnValue(whole.v, prev)
       ELSE IF block.some
            THEN LET inner == JsonLoads(block.v)
                 IN IF inner.raised = "" THEN ReturnValue(inner.v, prev)
                    ELSE Handle(Error(inner.raised, {"Expecting"}))
            ELSE Continue(Error("RuntimeError", {"Model did not return valid JSON"}))

\* the loop body from "text = ..." on, for a response o
OnResponse(o, prev) ==
    LET t == ResponseText(o)
    IN IF t.raised # "" THEN Handle(Error(t.raised, {"NoneType"}))
       ELSE IF t.v = <<>>
            THEN Continue(Error("RuntimeError", {"Empty model response"}))
            ELSE ParseJson(t.v, prev)

\* the whole loop body: o1 is what the call with cfg_json produces, o2 what
\* the call with cfg_plain produces if it is made
LoopBody(o1, o2, prev) ==
    IF o1.err = NoError THEN OnResponse(o1, prev)
    ELSE IF _is_mime_error(o1.err)
         THEN IF o2.err = NoError THEN OnResponse(o2, prev) ELSE Handle(o2.err)
         ELSE Handle(o1.err)

\* raise RuntimeError(f"Generation failed: {last_err}")
GenerationFailed(err) ==
    Error("RuntimeError",
          {"Generation failed: "} \cup
             (IF err = NoError THEN {"None"} ELSE err.msg))

(***************************************************************************)
(* main: from the value request_structured_json returned to the sections   *)
(* handed to validate_cta and to render_template.                          *)
(***************************************************************************)
\* the value of "sections" in the object a member text parses to: the items
\* <<key, value>> in document order, a value of None being JSON null; None
\* when the object has no "sections"
SectionsOf(body) ==
    CASE body = "m_full" ->
           Some(<<<<"BACKGROUND", Some(TTwo)>>, <<"HYPOTHESIS", Some(TTwo)>>,
                  <<"ANALYSIS", Some(TThree)>>, <<"FINDINGS", Some(TOne)>>,
                  <<"RECOMMENDATIONS", Some(TTwo)>>,
                  <<"ADDITIONAL_RESEARCH", Some(TTwo)>>,
                  <<"APPENDIX", Some(TEmpty)>>,
                  <<"RESOURCES", Some(TIdea1059)>>>>)
      [] body = "m_lower" ->
           Some(<<<<"background", Some(<<" ">> \o TTwo \o <<"\n">>)>>,
                  <<"Hypothesis", Some(TTwo)>>,
                  <<" analysis ", Some(TThree)>>,
                  <<"findings", Some(TEmpty)>>, <<"Findings", Some(TOne)>>,
                  <<"recommendations", Some(TTwo)>>,
                  <<"additional_research", Some(TTwo)>>,
                  <<"resources", Some(TId1578)>>>>)
      [] body = "m_partial" ->
           Some(<<<<"BACKGROUND", Some(TTwo)>>, <<"FINDINGS", Some(TOne)>>>>)
      [] body = "m_nulls" ->
           Some(<<<<"BACKGROUND", None>>, <<"HYPOTHESIS", Some(TBlank)>>,
                  <<"SUSPICIOUS_ACTIVITY_HITS", Some(TOne)>>>>)
      [] OTHER -> None

\* k.upper().strip(), on the keys of the objects above
UpperStrip(k) ==
    CASE k \in {"BACKGROUND", "background"} -> "BACKGROUND"
      [] k \in {"HYPOTHESIS", "Hypothesis"} -> "HYPOTHESIS"
      [] k \in {"ANALYSIS", " analysis "} -> "ANALYSIS"
      [] k \in {"FINDINGS", "findings", "Findings"} -> "FINDINGS"
      [] k \in {"RECOMMENDATIONS", "recommendations"} -> "RECOMMENDATIONS"
      [] k \in {"ADDITIONAL_RESEARCH", "additional_research"} ->
           "ADDITIONAL_RESEARCH"
      [] k = "APPENDIX" -> "APPENDIX"
      [] k \in {"RESOURCES", "resources"} -> "RESOURCES"
      [] k = "SUSPICIOUS_ACTIVITY_HITS" -> "SUSPICIOUS_ACTIVITY_HITS"

\* k.lower().replace("_", " "), on the keys of norm_sections
LowerSpaced(k) ==
    CASE k = "BACKGROUND" -> "background"
      [] k = "HYPOTHESIS" -> "hypothesis"
      [] k = "ANALYSIS" -> "analysis"
      [] k = "FINDINGS" -> "findings"
      [] k = "RECOMMENDATIONS" -> "recommendations"
      [] k = "ADDITIONAL_RESEARCH" -> "additional research"
      [] k = "APPENDIX" -> "appendix"
      [] k = "RESOURCES" -> "resources"
      [] k = "SUSPICIOUS_ACTIVITY_HITS" -> "suspicious activity hits"

\* d[key] = value as a dict comprehension does it: a key met again keeps its
\* place and takes the later value
SetItem(d, key, value) ==
    IF HasKey(d, key)
    THEN [i \in DOMAIN d |-> IF d[i][1] = key THEN <<key, value>> ELSE d[i]]
    ELSE Append(d, <<key, value>>)

\* {k.upper().strip(): (v or "").strip() for k, v in sections_raw.items()}
RECURSIVE NormSections(_, _)
NormSections(items, acc) ==
    IF items = <<>> THEN acc
    ELSE LET k == Head(items)[1]
             v == Head(items)[2]
         IN NormSections(Tail(items),
                         SetItem(acc, UpperStrip(k),
                                 Strip(IF Truthy(v) THEN v.v ELSE <<>>)))

\* {k.lower().replace("_", " "): v for k, v in norm_sections.items()}
RECURSIVE LowerSections(_, _)
LowerSections(items, acc) ==
    IF items = <<>> THEN acc
    ELSE LowerSections(Tail(items),
                       SetItem(acc, LowerSpaced(Head(items)[1]), Head(items)[2]))

\* sections_raw = data.get("sections", {})
SectionsRaw(value) ==
    IF SectionsOf(value.body).some THEN SectionsOf(value.body).v ELSE <<>>

(***************************************************************************)
(* render_template.  A template is [readable, literal, uses]: whether the  *)
(* file can be read, the bytes of its literal text, and whether it holds   *)
(* the eight section placeholders.  The texts are ASCII: a character is a  *)
(* byte.                                                                   *)
(***************************************************************************)
\* str.splitlines(), on line feeds
RECURSIVE SplitLines(_)
SplitLines(s) ==
    IF s = <<>> THEN <<>>
    ELSE LET feeds == {i \in DOMAIN s : s[i] = "\n"}
             i == CHOOSE k \in feeds : \A j \in feeds : k <= j
         IN IF feeds = {} THEN <<s>>
            ELSE <<SubSeq(s, 1, i - 1)>> \o SplitLines(SubSeq(s, i + 1, Len(s)))

\* [l.strip() for l in lines if l.strip()]
RECURSIVE StrippedLines(_)
StrippedLines(lines) ==
    IF lines = <<>> THEN <<>>
    ELSE IF Strip(Head(lines)) # <<>>
         THEN <<Strip(Head(lines))>> \o StrippedLines(Tail(lines))
         ELSE StrippedLines(Tail(lines))

\* resources = sections.get("RESOURCES", "").strip(); if resources and not ...
Resources(sections) ==
    LET resources == Strip(GetOr(sections, "RESOURCES", <<>>))
    IN IF resources # <<>> /\ resources[1] # "-"
       THEN Join(<<"\n">>, StrippedLines(SplitLines(resources)))
       ELSE resources

\* the placeholders render_template fills from sections, RESOURCES apart
Placeholders ==
    <<"BACKGROUND", "HYPOTHESIS", "ANALYSIS", "FINDINGS", "RECOMMENDATIONS",
      "ADDITIONAL_RESEARCH", "APPENDIX">>

RECURSIVE FilledBytes(_, _)
FilledBytes(sections, i) ==
    IF i > Len(Placeholders) THEN Len(Resources(sections))
    ELSE Len(GetOr(sections, Placeholders[i], <<>>)) + FilledBytes(sections, i + 1)

\* len(render_template(...).encode("utf-8"))
RenderedBytes(template, sections) ==
    template.literal + (IF template.uses THEN FilledBytes(sections, 1) ELSE 0)

\* if len(md.encode("utf-8")) < 256
MinReportBytes == 256

(***************************************************************************)
(* What main meets outside itself                                          *)
(***************************************************************************)
Response(t, cands, parts) ==
    [err |-> NoError, text |-> t, cands |-> cands, parts |-> parts]
Raises(err) == [err |-> err, text |-> None, cands |-> "none", parts |-> <<>>]
\* no call made
NoCall == [err |-> NoError, text |-> None, cands |-> "unset", parts |-> <<>>]

MimeError == Error("ClientError", {"INVALID_ARGUMENT", "response_mime_type"})

\* what a call of _call_generate_content can produce
CallOutcomes ==
    { Response(Some(TBlank), "none", <<>>),
      Response(None, "parts", <<None, Some(TBlank)>>),
      Response(None, "parts", <<Some(<<"{">>), None, Some(<<"m_partial", "}">>)>>),
      Response(None, "nocontent", <<>>),
      Response(Some(<<"x">>), "none", <<>>),
      Response(Some(<<"{", "m_full", "}">>), "none", <<>>),
      Response(Some(<<" ", "{", "m_nulls", "}", "\n">>), "none", <<>>),
      Response(Some(<<"{", "}">>), "none", <<>>),
      Response(Some(<<"[", "]">>), "none", <<>>),
      Response(Some(<<"x", "{", "m_lower", "}", "x">>), "none", <<>>),
      Response(Some(<<"x", "{", "bad", "}">>), "none", <<>>),
      Raises(Error("ClientError", {"404", "NOT_FOUND"})),
      Raises(Error("ClientError", {"404"})),
      Raises(Error("ClientError", {"429"})),
      Raises(MimeError),
      Raises(Error("ValueError", {"NOT_FOUND"})),
      Raises(Error("TypeError", {})) }

\* the kind of an outcome: an error, a response with text, a response whose
\* candidate has no content, a response without text
HasText(t) == t.some /\ \E i \in DOMAIN t.v : ~IsSpace(t.v[i])
Kind(o) ==
    IF o.err # NoError THEN "error"
    ELSE IF HasText(o.text) THEN "text"
    ELSE IF o.cands = "nocontent" THEN "malformed"
    ELSE IF o.cands = "parts" /\ \E i \in DOMAIN o.parts : HasText(o.parts[i])
         THEN "text"
         ELSE "empty"

Templates ==
    { [readable |-> FALSE, literal |-> 0, uses |-> FALSE],
      [readable |-> TRUE, literal |-> 0, uses |-> TRUE],
      [readable |-> TRUE, literal |-> 240, uses |-> TRUE],
      [readable |-> TRUE, literal |-> 256, uses |-> FALSE] }

\* --model: the default, a name with the prefix, another name, blank
Preferreds ==
    { Some(<<"gemini-1.5-pro-latest">>), Some(<<"models/", "gemini-1.5-flash">>),
      Some(<<" ", "my-model", " ">>), Some(<<" ">>) }

\* what client.models.list() gives: nothing, or names some of which the
\* fallbacks name too
Listings ==
    { <<>>,
      <<<<"models/", "gemini-2.0">>, <<"models/", "gemini-1.5-flash">>>> }

\* --prompt
Prompts == {TTwo, <<" ">> \o TIdea1059, TBlank}

NoData == [raised |-> NoError, v |-> NoValue]
NotRendered == [called |-> FALSE, returned |-> FALSE, bytes |-> 0]

MainIdle ==
    /\ args = [strict_sections |-> FALSE, model |-> None]
    /\ listed = <<>>
    /\ models = <<>>
    /\ cursor = 0
    /\ resp = NoCall
    /\ answers = {}
    /\ last_err = NoError
    /\ data = NoData
    /\ norm = <<>>
    /\ report = NotRendered
    /\ output = "absent"
    /\ exit_code = -1

HelperIdle == arg = <<>> /\ ret = <<>>

(***************************************************************************)
(* The calls of validate_cta a process makes: one on its document, then    *)
(* possibly one on another document, then one more on its own.             *)
(***************************************************************************)
NoResult == Raised("")

Init ==
    /\ \E b1 \in Bodies(Keys[1]), b2 \in Bodies(Keys[2]), b3 \in Bodies(Keys[3]),
          b4 \in Bodies(Keys[4]), b5 \in Bodies(Keys[5]), b6 \in Bodies(Keys[6]),
          b7 \in Bodies(Keys[7]), b8 \in Bodies(Keys[8]), b9 \in Bodies(Keys[9]),
          b10 \in Bodies(Keys[10]) :
          LET bs == <<b1, b2, b3, b4, b5, b6, b7, b8, b9, b10>>
              choice == [k \in SeqToSet(Keys) |->
                           bs[CHOOSE i \in DOMAIN Keys : Keys[i] = k]]
          IN doc = MkDict(choice, Keys)
    /\ topic \in Ideas
    /\ minimum \in 1..MaxMinWords
    /\ flag \in BOOLEAN
    /\ pc = "ready"
    /\ first = NoResult
    /\ result = NoResult
    /\ MainIdle
    /\ HelperIdle

\* valid, errors, word_counts = validate_cta(sections, idea, min_words, ...)
Validate ==
    /\ pc = "ready"
    /\ result' = validate_cta(doc, topic, minimum, flag)
    /\ first' = result'
    /\ pc' = "returned"
    /\ UNCHANGED <<doc, topic, minimum, flag>>
    /\ UNCHANGED <<mainVars, helperVars>>

\* a call on another document in between
ValidateOther ==
    /\ pc = "returned"
    /\ result' = validate_cta(OtherSections, OtherIdea, minimum, TRUE)
    /\ pc' = "other"
    /\ UNCHANGED <<doc, topic, minimum, flag, first>>
    /\ UNCHANGED <<mainVars, helperVars>>

\* a second call with the same arguments; the dict passed is equal to the first
\* and may have been filled in another order
Revalidate ==
    /\ pc \in {"returned", "other"}
    /\ \E d \in {doc, Reversed(doc)} :
          result' = validate_cta(d, topic, minimum, flag)
    /\ pc' = "revalidated"
    /\ UNCHANGED <<doc, topic, minimum, flag, first>>
    /\ UNCHANGED <<mainVars, helperVars>>

Next == Validate \/ ValidateOther \/ Revalidate

Spec == Init /\ [][Next]_vars

(***************************************************************************)
(* main, one run: the arguments and the environment are drawn at the       *)
(* start; the steps are the stretches of main between its calls.           *)
(***************************************************************************)
InitMain ==
    /\ doc = <<>>
    /\ topic \in Prompts
    /\ minimum \in 1..MaxMinWords
    /\ flag \in BOOLEAN
    /\ pc = "start"
    /\ first = NoResult
    /\ result = NoResult
    /\ args \in [strict_sections : BOOLEAN, model : Preferreds]
    /\ listed \in Listings
    /\ models = <<>>
    /\ cursor = 0
    /\ resp = NoCall
    /\ answers = {}
    /\ last_err = NoError
    /\ data = NoData
    /\ norm = <<>>
    /\ report = NotRendered
    /\ output = "absent"
    /\ exit_code = -1
    /\ HelperIdle

\* return code
Exit(code) == pc' = "done" /\ exit_code' = code

\* main up to the call of request_structured_json: the API key, the system
\* prompt file, the idea
Startup ==
    /\ pc = "start"
    /\ \E api_key \in {TBlank, <<"k">>}, system \in {"unreadable", "blank", "text"} :
          IF Strip(api_key) = <<>> THEN Exit(2) /\ UNCHANGED topic
          ELSE IF system # "text" THEN Exit(3) /\ UNCHANGED topic
          ELSE IF Strip(topic) = <<>> THEN Exit(1) /\ UNCHANGED topic
          ELSE /\ topic' = Strip(topic)
               /\ pc' = "request"
               /\ UNCHANGED exit_code
    /\ UNCHANGED <<doc, minimum, flag, first, result, args, listed, models,
                   cursor, resp, answers, last_err, data, norm, report,
                   output, helperVars>>

\* request_structured_json up to its loop
Candidates ==
    /\ pc = "request"
    /\ models' = _candidate_models(listed, args.model)
    /\ cursor' = 1
    /\ last_err' = NoError
    /\ pc' = "generate"
    /\ UNCHANGED <<callVars, first, result, args, listed, resp, answers, data,
                   norm, report, output, exit_code, helperVars>>

\* one pass of "for m in models" on models[cursor]
Invoke ==
    /\ pc = "generate"
    /\ cursor <= Len(models)
    /\ \E o1 \in CallOutcomes :
       \E o2 \in (IF _is_mime_error(o1.err) THEN CallOutcomes ELSE {NoCall}) :
          LET r == LoopBody(o1, o2, last_err)
              retried == o1.err # NoError /\ _is_mime_error(o1.err)
              seen == answers \cup {Kind(o1)} \cup (IF retried THEN {Kind(o2)} ELSE {})
          IN /\ resp' = IF retried THEN o2 ELSE o1
             /\ CASE r.act = "return" ->
                       /\ data' = [raised |-> NoError, v |-> r.value]
                       /\ pc' = "normalize"
                       /\ models' = <<>>
                       /\ cursor' = 0
                       /\ last_err' = NoError
                       /\ answers' = {}
                  [] r.act = "continue" ->
                       /\ cursor' = cursor + 1
                       /\ last_err' = r.last_err
                       /\ answers' = seen
                       /\ UNCHANGED <<pc, data, models>>
                  [] r.act = "break" ->
                       /\ pc' = "raise"
                       /\ last_err' = r.last_err
                       /\ answers' = seen
                       /\ UNCHANGED <<cursor, data, models>>
    /\ UNCHANGED <<callVars, first, result, args, listed, norm, report,
                   output, exit_code, helperVars>>

\* the loop is over: raise RuntimeError(...), which main answers with return 4
GenerationError ==
    /\ \/ pc = "raise"
       \/ pc = "generate" /\ cursor > Len(models)
    /\ data' = [raised |-> GenerationFailed(last_err), v |-> NoValue]
    /\ Exit(4)
    /\ UNCHANGED <<callVars, first, result, args, listed, models, cursor, resp,
                   answers, last_err, norm, report, output, helperVars>>

\* metadata = data.get(...) ... lower_sections = {...}; a value that is not a
\* dict has no get: the exception leaves main and the interpreter exits with 1
Normalize ==
    /\ pc = "normalize"
    /\ resp' = NoCall
    /\ IF data.v.type # "dict"
       THEN Exit(1) /\ UNCHANGED <<norm, doc>>
       ELSE /\ norm' = NormSections(SectionsRaw(data.v), <<>>)
            /\ doc' = LowerSections(norm', <<>>)
            /\ pc' = "ready"
            /\ UNCHANGED exit_code
    /\ UNCHANGED <<topic, minimum, flag, first, result, args, listed, models,
                   cursor, answers, last_err, data, report, output,
                   helperVars>>

\* variant: the run goes on to render whatever --strict-sections says
Gate_neverBlocks ==
    /\ pc = "returned"
    /\ pc' = "render"
    /\ UNCHANGED <<callVars, first, result, mainVars, helperVars>>

\* if not valid: ... if args.strict_sections: return 7
Gate ==
    /\ pc = "returned"
    /\ IF ~result.ok /\ args.strict_sections
       THEN Exit(7)
       ELSE pc' = "render" /\ UNCHANGED exit_code
    /\ UNCHANGED <<callVars, first, result, args, listed, models, cursor, resp,
                   answers, last_err, data, norm, report, output, helperVars>>

\* the try block that renders and writes, and the return 0 after it
Render ==
    /\ pc = "render"
    /\ \E io \in {"ok", "no directory", "no open", "no write"},
          template \in Templates :
          IF io = "no directory"
          THEN Exit(6) /\ UNCHANGED <<report, output>>
          ELSE IF ~template.readable
          THEN /\ report' = [called |-> TRUE, returned |-> FALSE, bytes |-> 0]
               /\ Exit(6) /\ UNCHANGED output
          ELSE /\ report' = [called |-> TRUE, returned |-> TRUE,
                             bytes |-> RenderedBytes(template, norm)]
               /\ IF report'.bytes < MinReportBytes
                  THEN Exit(5) /\ UNCHANGED output
                  ELSE IF io = "no open"
                  THEN Exit(6) /\ UNCHANGED output
                  ELSE IF io = "no write"
                  THEN Exit(6) /\ output' = "open"
                  ELSE Exit(0) /\ output' = "written"
    /\ UNCHANGED <<callVars, first, result, args, listed, models, cursor, resp,
                   answers, last_err, data, norm, helperVars>>

NextMain ==
    \/ Startup
    \/ Candidates
    \/ Invoke
    \/ GenerationError
    \/ Normalize
    \/ Validate
    \/ Gate
    \/ Render

SpecMain == InitMain /\ [][NextMain]_vars

(***************************************************************************)
(* extract_attack_ids on its own: a call on a text put together from at    *)
(* most MaxPieces pieces.                                                  *)
(***************************************************************************)
MaxPieces == 5

\* "T1578", "T1059", "T157", "9", "_", " "
IdPieces ==
    { <<"T", "1", "5", "7", "8">>, <<"T", "1", "0", "5", "9">>,
      <<"T", "1", "5", "7">>, <<"9">>, <<"_">>, <<" ">> }

\* the texts of at most n pieces out of P
RECURSIVE TextsUpTo(_, _)
TextsUpTo(P, n) ==
    IF n = 0 THEN {<<>>}
    ELSE LET shorter == TextsUpTo(P, n - 1)
         IN shorter \cup {t \o q : t \in shorter, q \in P}

\* the variables of validate_cta's caller and of main, at rest
CallIdle ==
    /\ doc = <<>>
    /\ topic = <<>>
    /\ minimum = 1
    /\ flag = FALSE
    /\ first = NoResult
    /\ result = NoResult

InitIds ==
    /\ arg \in TextsUpTo(IdPieces, MaxPieces)
    /\ ret = <<>>
    /\ pc = "call"
    /\ CallIdle
    /\ MainIdle

\* ret = extract_attack_ids(arg)
ExtractIds ==
    /\ pc = "call"
    /\ ret' = extract_attack_ids(arg)
    /\ pc' = "extracted"
    /\ UNCHANGED <<callVars, first, result, mainVars, arg>>

NextIds == ExtractIds

SpecIds == InitIds /\ [][NextIds]_vars

(***************************************************************************)
(* find_headings on its own: a call on a text of at most MaxMdPieces       *)
(* pieces.                                                                 *)
(***************************************************************************)
MaxMdPieces == 5

\* "#", "######", " ", "   ", a line feed, "a"
MdPieces ==
    { <<"#">>, <<"#", "#", "#", "#", "#", "#">>, <<" ">>, <<" ", " ", " ">>,
      <<"\n">>, <<"a">> }

InitHeadings ==
    /\ arg \in TextsUpTo(MdPieces, MaxMdPieces)
    /\ ret = <<>>
    /\ pc = "call"
    /\ CallIdle
    /\ MainIdle

\* ret = find_headings(arg)
FindHeadings ==
    /\ pc = "call"
    /\ ret' = find_headings(arg)
    /\ pc' = "scanned"
    /\ UNCHANGED <<callVars, first, result, mainVars, arg>>

NextHeadings == FindHeadings

SpecHeadings == InitHeadings /\ [][NextHeadings]_vars

(***************************************************************************)
(* Vocabulary of the properties                                            *)
(***************************************************************************)
\* the first call on doc has just returned: first is what it returned
Called == pc = "returned"

\* the section is in the mapping with a body that is not blank
Resolved(d, key) ==
    HasKey(d, key) /\ \E i \in DOMAIN Lookup(d, key) : ~IsSpace(Lookup(d, key)[i])

\* the section is in the mapping with a non-empty body
HasBody(d, key) == HasKey(d, key) /\ Lookup(d, key) # <<>>

\* the number of maximal runs of word characters
NumWords(s) ==
    Cardinality({i \in DOMAIN s :
                   IsWordChar(s[i]) /\ (i = 1 \/ ~IsWordChar(s[i - 1]))})

RequiredNames ==
    {"Background", "Hypothesis", "Analysis", "Recommendations",
     "Additional Research", "Resources"}

MissingFindings == ErrMissing("Findings or Suspicious Activity Hits")

IsShort(e) == e.fmt = "Section '{}' is too short ({} words < {})."
IsAttack(e) ==
    e.fmt = "ATT&CK IDs from idea not reflected in output: expected one of {}"

\* the positions of errs that hold e
Occurrences(errs, e) == {i \in DOMAIN errs : errs[i] = e}
\* the positions of errs that name a section
Naming(errs, name) == {i \in DOMAIN errs : errs[i].name = name}

(***************************************************************************)
(* C1: whatever the arguments, validate_cta returns ok = TRUE exactly      *)
(* when the error list it returns is empty.                                *)
(***************************************************************************)
C1_OkIffNoErrors ==
    (pc # "ready") => \A r \in {first, result} :
                 (r.raised = "") => (r.ok <=> r.errors = <<>>)

\* a call returned ok = TRUE with no error, and another a non-empty list with
\* ok = FALSE
C1_Witness ==
    /\ pc = "other"
    /\ first.ok /\ first.errors = <<>>
    /\ ~result.ok /\ result.errors # <<>>

(***************************************************************************)
(* C2: each of the six required sections has exactly one outcome.  A       *)
(* section that is not resolved (absent, or its body blank) gets one       *)
(* "Missing required section: <name>" error and no word count.  A resolved *)
(* one has its word count recorded under its name, and gets one "too       *)
(* short" error exactly when the count is strictly less than min_words.    *)
(***************************************************************************)
C2_RequiredOutcome ==
    Called => \A k \in SeqToSet(required) :
        LET name == Title(k)
            errs == Naming(first.errors, name)
            counts == {p \in first.word_counts : p[1] = name}
        IN IF ~Resolved(doc, k)
           THEN /\ Cardinality(errs) = 1
                /\ \A i \in errs : first.errors[i] = ErrMissing(name)
                /\ counts = {}
           ELSE LET wc == NumWords(Lookup(doc, k))
                IN /\ counts = {<<name, wc>>}
                   /\ IF wc < minimum
                      THEN /\ Cardinality(errs) = 1
                           /\ \A i \in errs :
                                 first.errors[i] = ErrShort(name, wc, minimum)
                      ELSE errs = {}

\* one section unresolved, one with a count equal to min_words, one below it
C2_Witness ==
    /\ pc = "returned"
    /\ \E k \in SeqToSet(required) : ~Resolved(doc, k)
    /\ \E k \in SeqToSet(required) :
          Resolved(doc, k) /\ NumWords(Lookup(doc, k)) = minimum
    /\ \E k \in SeqToSet(required) :
          Resolved(doc, k) /\ NumWords(Lookup(doc, k)) < minimum

(***************************************************************************)
(* C3 as stated: a mapping that contains "suspicious activity hits" and no *)
(* "findings" gets no missing-Findings error, and a mapping that contains  *)
(* neither gets exactly one.                                               *)
(***************************************************************************)
C3_AliasByPresence ==
    Called =>
      /\ ((HasKey(doc, "suspicious activity hits") /\ ~HasKey(doc, "findings"))
            => Occurrences(first.errors, MissingFindings) = {})
      /\ ((~HasKey(doc, "suspicious activity hits") /\ ~HasKey(doc, "findings"))
            => Cardinality(Occurrences(first.errors, MissingFindings)) = 1)

(***************************************************************************)
(* C3 amended: a mapping whose "suspicious activity hits" body is          *)
(* non-empty and that contains no "findings" gets no missing-Findings      *)
(* error; a mapping in which neither of the two has a non-empty body (in   *)
(* particular one that contains neither) gets exactly one.                 *)
(***************************************************************************)
C3_AliasByBody ==
    Called =>
      /\ ((HasBody(doc, "suspicious activity hits") /\ ~HasKey(doc, "findings"))
            => Occurrences(first.errors, MissingFindings) = {})
      /\ ((~HasBody(doc, "suspicious activity hits") /\ ~HasBody(doc, "findings"))
            => Cardinality(Occurrences(first.errors, MissingFindings)) = 1)

\* the alias alone satisfied the requirement
C3_Witness ==
    /\ pc = "returned"
    /\ HasBody(doc, "suspicious activity hits") /\ ~HasKey(doc, "findings")
    /\ Occurrences(first.errors, MissingFindings) = {}

(***************************************************************************)
(* C4 as stated: a mapping whose only findings-like section is             *)
(* "suspicious activity" gets no missing-Findings error.                   *)
(***************************************************************************)
C4_ThreeLabels ==
    Called =>
      ((/\ HasBody(doc, "suspicious activity")
        /\ ~HasKey(doc, "findings")
        /\ ~HasKey(doc, "suspicious activity hits"))
         => Occurrences(first.errors, MissingFindings) = {})

(***************************************************************************)
(* C4 amended: the Findings requirement is satisfied by a non-empty body   *)
(* under one of the two labels Findings, Suspicious Activity Hits, and by  *)
(* nothing else: a mapping whose only findings-like section is             *)
(* "suspicious activity" gets exactly one missing-Findings error.          *)
(***************************************************************************)
C4_TwoLabels ==
    Called =>
      LET n == Cardinality(Occurrences(first.errors, MissingFindings))
      IN IF HasBody(doc, "findings") \/ HasBody(doc, "suspicious activity hits")
         THEN n = 0
         ELSE n = 1

\* "suspicious activity" is the only findings-like section, and the error is there
C4_Witness ==
    /\ pc = "returned"
    /\ HasBody(doc, "suspicious activity")
    /\ ~HasKey(doc, "findings")
    /\ ~HasKey(doc, "suspicious activity hits")
    /\ Cardinality(Occurrences(first.errors, MissingFindings)) = 1

\* the label whose body satisfied the Findings requirement, if any
Matched(d) ==
    IF HasBody(d, "findings") THEN {"findings"}
    ELSE IF HasBody(d, "suspicious activity hits")
         THEN {"suspicious activity hits"}
         ELSE {}

(***************************************************************************)
(* C5 as stated: when the body of the label that satisfied the Findings    *)
(* requirement has fewer than min_words words, validate_cta reports a      *)
(* too-short error for it, returns ok = FALSE and records its word count.  *)
(***************************************************************************)
C5_MinimumOnFindings ==
    Called => \A k \in Matched(doc) :
        LET wc == NumWords(Lookup(doc, k))
        IN (wc < minimum) =>
             (/\ \E i \in DOMAIN first.errors :
                    IsShort(first.errors[i]) /\ first.errors[i].wc = wc
                    /\ first.errors[i].name \notin RequiredNames
              /\ ~first.ok
              /\ \E p \in first.word_counts :
                    p[1] \notin RequiredNames \cup {"Appendix"} /\ p[2] = wc)

(***************************************************************************)
(* C5 amended: the body that satisfies the Findings requirement is under   *)
(* no word minimum.  Too-short errors name only the six required sections, *)
(* word counts are recorded only for them and for Appendix, and a mapping  *)
(* whose required sections all pass and whose Findings body is non-empty   *)
(* is valid however short that body is (identifier check aside).           *)
(***************************************************************************)
C5_NoMinimumOnFindings ==
    Called =>
      /\ \A i \in DOMAIN first.errors :
            IsShort(first.errors[i]) => first.errors[i].name \in RequiredNames
      /\ \A p \in first.word_counts : p[1] \in RequiredNames \cup {"Appendix"}
      /\ ((/\ Matched(doc) # {}
           /\ ~flag
           /\ \A k \in SeqToSet(required) :
                 Resolved(doc, k) /\ NumWords(Lookup(doc, k)) >= minimum)
            => first.ok)

\* a Findings body below the minimum in a mapping found valid
C5_Witness ==
    /\ pc = "returned"
    /\ \E k \in Matched(doc) : NumWords(Lookup(doc, k)) < minimum
    /\ first.ok

\* the technique IDs of a text, and of all the bodies of a mapping
IdsOf(text) == SeqToSet(extract_attack_ids(text))
DocIds(d) == UNION {IdsOf(d[i][2]) : i \in DOMAIN d}

\* the error list after the Findings and required-section checks alone
ErrorsBeforeAttack(d, min) ==
    CheckRequired(d, min, 1,
                  [errors |-> CheckFindings(d, <<>>), word_counts |-> {}]).errors

(***************************************************************************)
(* C6: with require_attack_ids enabled, the identifier-propagation error   *)
(* is appended (once, last) exactly when the idea contains an ID and none  *)
(* of its IDs is among the IDs of the section bodies; with the flag        *)
(* disabled, or no ID in the idea, the error list is the one the other     *)
(* checks produce.                                                         *)
(***************************************************************************)
C6_IdentifierPropagation ==
    Called =>
      LET fails == IdsOf(topic) # {} /\ IdsOf(topic) \cap DocIds(doc) = {}
          others == ErrorsBeforeAttack(doc, minimum)
      IN IF flag /\ fails
         THEN first.errors = Append(others, ErrAttack(extract_attack_ids(topic)))
         ELSE first.errors = others /\ \A i \in DOMAIN others : ~IsAttack(others[i])

\* the idea's ID is missing from bodies that hold another ID
C6_Witness ==
    /\ pc = "returned"
    /\ flag
    /\ IdsOf(topic) # {} /\ DocIds(doc) # {} /\ IdsOf(topic) \cap DocIds(doc) = {}
    /\ IsAttack(first.errors[Len(first.errors)])

\* d with the appendix item removed
WithoutAppendix(d) == SelectSeq(d, LAMBDA item : item[1] # "appendix")
\* d with the appendix item removed (a = None) or set to a.v
WithAppendix(d, a) ==
    IF a.some THEN Append(WithoutAppendix(d), <<"appendix", a.v>>)
    ELSE WithoutAppendix(d)

AppendixVariants == Bodies("appendix") \cup {Some(TBlank)}

(***************************************************************************)
(* C7: the Appendix section never contributes an error.  With the          *)
(* identifier check disabled, two mappings that differ only in the         *)
(* presence or content of "appendix" get the same error list and the same  *)
(* ok; a non-empty Appendix has its word count recorded under "Appendix",  *)
(* whatever its length.                                                    *)
(***************************************************************************)
C7_AppendixNeverAnError ==
    /\ (Called /\ ~flag) =>
          \A a \in AppendixVariants :
             LET r == validate_cta(WithAppendix(doc, a), topic, minimum, flag)
             IN r.errors = first.errors /\ r.ok = first.ok
    /\ Called =>
          /\ Naming(first.errors, "Appendix") = {}
          /\ HasBody(doc, "appendix") =>
                {p \in first.word_counts : p[1] = "Appendix"} =
                   {<<"Appendix", NumWords(Lookup(doc, "appendix"))>>}

\* an appendix below the minimum, counted, in a mapping found valid
C7_Witness ==
    /\ pc = "returned"
    /\ ~flag
    /\ HasBody(doc, "appendix")
    /\ NumWords(Lookup(doc, "appendix")) < minimum
    /\ <<"Appendix", NumWords(Lookup(doc, "appendix"))>> \in first.word_counts
    /\ first.ok

RequiredOrder ==
    <<"Background", "Hypothesis", "Analysis", "Recommendations",
      "Additional Research", "Resources">>

\* the place of an error in the order of the checks; -1 for any other error
Rank(e) ==
    IF e = MissingFindings THEN 0
    ELSE IF IsAttack(e) THEN Len(RequiredOrder) + 1
    ELSE IF \E i \in DOMAIN RequiredOrder : RequiredOrder[i] = e.name
         THEN CHOOSE i \in DOMAIN RequiredOrder : RequiredOrder[i] = e.name
         ELSE -1

(***************************************************************************)
(* C8: the error list is in the order of one forward pass: the             *)
(* missing-Findings error first, then the errors of the required sections  *)
(* in the order Background, Hypothesis, Analysis, Recommendations,         *)
(* Additional Research, Resources (at most one each), then the             *)
(* identifier-propagation error last; no message appears twice.            *)
(***************************************************************************)
C8_ErrorsInCheckOrder ==
    Called =>
      /\ \A i \in DOMAIN first.errors : Rank(first.errors[i]) >= 0
      /\ \A i, j \in DOMAIN first.errors :
            (i < j) => Rank(first.errors[i]) < Rank(first.errors[j])

\* every check failed: eight errors
C8_Witness ==
    /\ pc = "returned"
    /\ Len(first.errors) = Len(RequiredOrder) + 2
    /\ first.errors[1] = MissingFindings
    /\ IsAttack(first.errors[Len(first.errors)])

(***************************************************************************)
(* C9: validate_cta never raises.  For every mapping from strings to       *)
(* strings, the empty mapping and empty bodies included, every call ends   *)
(* at its return statement with the triple, however many checks fail.      *)
(***************************************************************************)
C9_NeverRaises ==
    (pc # "ready") => (first.raised = "" /\ result.raised = "")

\* the empty mapping: all seven presence checks failed and the call returned
C9_Witness ==
    /\ pc = "returned"
    /\ doc = <<>>
    /\ first.raised = ""
    /\ Len(first.errors) >= Len(RequiredOrder) + 1

Validated == pc \in {"returned", "render", "done"} /\ result # NoResult
\* the section validation failed
Failed == Validated /\ ~result.ok
\* nothing was rendered and the output file was not touched
Untouched == ~report.called /\ output = "absent"

(***************************************************************************)
(* C11: a failed section validation ends the run with exit code 7, before  *)
(* any rendering or writing, exactly when --strict-sections is set: exit   *)
(* code 7 is returned only after a failed validation in strict mode and    *)
(* with nothing rendered or written, and a failed validation in strict     *)
(* mode leads nowhere else.  Without strict mode a failed validation       *)
(* never ends the run: it goes on to render and write, and ends with the   *)
(* exit code rendering and writing give it (0 when the file is written).   *)
(***************************************************************************)
C11_StrictGate ==
    /\ (exit_code = 7) => (Failed /\ args.strict_sections /\ Untouched)
    /\ (Failed /\ args.strict_sections) =>
          (/\ pc = "returned" \/ (pc = "done" /\ exit_code = 7)
           /\ Untouched)
    /\ (Failed /\ ~args.strict_sections) =>
          (/\ pc \in {"returned", "render"} => exit_code = -1
           /\ pc = "done" =>
                (/\ exit_code \in {0, 5, 6}
                 /\ (exit_code = 0) <=> (output = "written")
                 /\ (exit_code = 0) => (report.returned /\ report.bytes >= MinReportBytes)))

\* a run whose validation failed, without strict mode, wrote the report and
\* ended with 0
C11_Witness ==
    /\ pc = "done"
    /\ Failed
    /\ ~args.strict_sections
    /\ result.errors # <<>>
    /\ output = "written"
    /\ exit_code = 0

(***************************************************************************)
(* C12: exit code 5 means empty or too-small content.  A run in which      *)
(* every call of the model returned a response without text ends with     *)
(* exit code 5, and so does a run whose rendered report is under 256       *)
(* bytes; neither ends with 4 or 6.                                        *)
(***************************************************************************)
C12_EmptyOrSmallIsFive ==
    (pc = "done") =>
       /\ (answers = {"empty"}) => (exit_code = 5)
       /\ (report.returned /\ report.bytes < MinReportBytes) => (exit_code = 5)

\* the maximal runs of word characters of s, as <<first, last>> positions
WordRuns(s) ==
    {r \in (DOMAIN s) \X (DOMAIN s) :
        /\ r[1] <= r[2]
        /\ \A i \in r[1]..r[2] : IsWordChar(s[i])
        /\ r[1] = 1 \/ ~IsWordChar(s[r[1] - 1])
        /\ r[2] = Len(s) \/ ~IsWordChar(s[r[2] + 1])}

\* 'T' followed by exactly four digits, and nothing more
IsAttackId(w) ==
    Len(w) = 5 /\ w[1] = "T" /\ \A i \in 2..5 : w[i] \in Digits

\* the tokens of s of that form
AttackTokens(s) ==
    {SubSeq(s, r[1], r[2]) : r \in {q \in WordRuns(s) : IsAttackId(SubSeq(s, q[1], q[2]))}}

DigitValue(c) ==
    CASE c = "0" -> 0 [] c = "1" -> 1 [] c = "5" -> 5 [] c = "7" -> 7
      [] c = "8" -> 8 [] c = "9" -> 9

\* the number an ID carries
IdNumber(w) ==
    1000 * DigitValue(w[2]) + 100 * DigitValue(w[3]) + 10 * DigitValue(w[4])
      + DigitValue(w[5])

(***************************************************************************)
(* C13: extract_attack_ids returns a strictly ascending list (so without   *)
(* duplicates) whose elements are exactly the tokens of the text that are  *)
(* 'T' followed by exactly four digits.  A 'T' followed by five or more    *)
(* digits, or by three or fewer, contributes nothing, and an ID that       *)
(* occurs several times appears once.                                      *)
(***************************************************************************)
C13_SortedDistinctIds ==
    (pc = "extracted") =>
       /\ SeqToSet(ret) = AttackTokens(arg)
       /\ \A i, j \in DOMAIN ret : (i < j) => (IdNumber(ret[i]) < IdNumber(ret[j]))
       /\ Len(ret) = Cardinality(AttackTokens(arg))

\* two IDs returned in ascending order from a text that has them in the other
\* order, one of them twice: "T1578 T1059 T1578"
C13_Witness ==
    /\ pc = "extracted"
    /\ arg = <<"T", "1", "5", "7", "8", " ", "T", "1", "0", "5", "9", " ",
               "T", "1", "5", "7", "8">>
    /\ ret = <<<<"T", "1", "0", "5", "9">>, <<"T", "1", "5", "7", "8">>>>

\* the positions of s where a line begins, and the line that begins at p
LineStarts(s) == {p \in DOMAIN s : p = 1 \/ s[p - 1] = "\n"}
LineAt(s, p) ==
    LET stops == {q \in p..(Len(s) + 1) : q = Len(s) + 1 \/ s[q] = "\n"}
    IN SubSeq(s, p, Min(stops) - 1)

\* the line is k spaces, h '#', a space and then at least one more character
\* (a text of blanks counts: its heading_text is empty)
HeadingShape(line, k, h) ==
    /\ k + h + 2 <= Len(line)
    /\ \A i \in 1..k : line[i] = " "
    /\ \A i \in (k + 1)..(k + h) : line[i] = "#"
    /\ line[k + h + 1] = " "

\* 0 to 3 leading spaces, 1 to 6 '#', at least one space, then heading text
IsHeadingLine(line) == \E k \in 0..3, h \in 1..6 : HeadingShape(line, k, h)

\* the heading text of such a line: what follows the '#', without the white
\* space around it
HeadingText(line) ==
    LET kh == CHOOSE q \in (0..3) \X (1..6) : HeadingShape(line, q[1], q[2])
    IN Strip(SubSeq(line, kh[1] + kh[2] + 1, Len(line)))

\* the pairs the heading lines of s stand for
HeadingLines(s) ==
    {<<HeadingText(LineAt(s, p)), p - 1>> :
        p \in {q \in LineStarts(s) : IsHeadingLine(LineAt(s, q))}}

(***************************************************************************)
(* C14: find_headings returns one (heading_text, offset) pair for each     *)
(* line made of 0 to 3 leading spaces, 1 to 6 '#', at least one space and  *)
(* a heading text, and none for any other line.  The offset is the         *)
(* position at which the heading's own line begins, the pairs are in       *)
(* document order with strictly increasing offsets, heading_text has no    *)
(* trailing white space, and a text without such a line gives the empty    *)
(* sequence.                                                               *)
(***************************************************************************)
C14_HeadingPerLine ==
    (pc = "scanned") =>
       /\ SeqToSet(ret) = HeadingLines(arg)
       /\ Len(ret) = Cardinality(HeadingLines(arg))
       /\ \A i, j \in DOMAIN ret : (i < j) => (ret[i][2] < ret[j][2])
       /\ \A i \in DOMAIN ret :
             ret[i][1] = <<>> \/ ~IsSpace(ret[i][1][Len(ret[i][1])])

(***************************************************************************)
(* Vocabulary of the properties of request_structured_json                 *)
(***************************************************************************)
\* the call raised
Errored(o) == o.err # NoError
\* the call raised a ClientError that says the model was not found
NotFound(o) ==
    o.err.type = "ClientError" /\ ("NOT_FOUND" \in o.err.msg \/ "404" \in o.err.msg)
\* the response came back without text
EmptyResponse(o) == ~Errored(o) /\ Kind(o) = "empty"
\* the JSON values that can be read from a text: the whole text, or its
\* stretch from the first "{" to the last "}"
Readings(t) ==
    {j.v : j \in {r \in {JsonLoads(t)} \cup
                      (IF SearchBlock(t).some THEN {JsonLoads(SearchBlock(t).v)} ELSE {}) :
                    r.raised = ""}}
\* the response has text and a JSON value can be read from it
Parses(o) == ~Errored(o) /\ Kind(o) = "text" /\ Readings(ResponseText(o).v) # {}
\* the response has text and no JSON value can be read from it
Unparseable(o) == ~Errored(o) /\ Kind(o) = "text" /\ Readings(ResponseText(o).v) = {}
\* the three reasons to go on to the next candidate
MovesOn(o) == EmptyResponse(o) \/ Unparseable(o) \/ NotFound(o)

(***************************************************************************)
(* C15: request_structured_json walks the candidate list once, front to    *)
(* back, and ends.  A pass on a candidate returns the parsed JSON when the *)
(* response has text that parses; goes on to the next candidate after an   *)
(* empty response, an unparseable response or a NOT_FOUND ClientError;     *)
(* and stops the walk, with no later candidate invoked, after any other    *)
(* error.  A walk that returns nothing raises a 'Generation failed'        *)
(* RuntimeError that carries the last error seen.                          *)
(***************************************************************************)
C15_WalkOnce ==
    [][/\ (pc = "generate" /\ cursor <= Len(models)) =>
             /\ Parses(resp') =>
                   (pc' = "normalize" /\ data'.v \in Readings(ResponseText(resp').v))
             /\ MovesOn(resp') => (pc' = "generate" /\ cursor' = cursor + 1)
             /\ (~Parses(resp') /\ ~MovesOn(resp')) =>
                   (/\ pc' = "raise" /\ cursor' = cursor
                    /\ last_err' # NoError
                    /\ Errored(resp') => (last_err' = resp'.err))
       /\ (pc = "raise" \/ (pc = "generate" /\ cursor > Len(models))) =>
             /\ pc' = "done"
             /\ data'.raised =
                   Error("RuntimeError", {"Generation failed: "} \cup last_err.msg)
       /\ (pc = "generate") => (cursor \in 1..(Len(models) + 1))]_vars

(***************************************************************************)
(* C16: the candidate list of _candidate_models holds no model name twice, *)
(* whatever is discovered and whatever name is preferred, so that a run of *)
(* request_structured_json invokes no model name twice; the discovered     *)
(* names come first, in the order of discovery.                            *)
(***************************************************************************)
C16_NoDuplicateCandidates ==
    (models # <<>>) =>
       /\ \A i, j \in DOMAIN models : (i # j) => (models[i] # models[j])
       /\ SubSeq(models, 1, Len(listed)) = listed

====
